---- MODULE Spec2Model ----
(***************************************************************************)
(* Model of the product-creation form (create-product-form.tsx) and of the *)
(* relational schema (schema.prisma) of the storefront.                    *)
(*                                                                         *)
(* Strings that are only compared or measured (name, description, slugs)   *)
(* are TLA+ strings.  The price and stock strings are sequences of         *)
(* one-character strings, so that Number(), parseFloat() and parseInt()    *)
(* are computed character by character as ECMAScript computes them.        *)
(***************************************************************************)
EXTENDS Integers, Sequences, FiniteSets, TLC

\* ------------------------------------------------------------------ bounds
\* longest price / stock string the user types
MaxStrLen == 3
\* submit events issued on one mounted form
MaxRuns == 2
\* files the user attaches to the image slots of one form
MaxFiles == 2
\* rows the store may hold besides the users and the line items
MaxRows == 4
\* line items of one order
MaxLines == 2

\* characters the price and stock strings are built from: two digits, the
\* decimal point, the sign, white space and the hex marker (exponents and
\* the literal Infinity are outside this alphabet)
InputChars == {"0", "1", ".", "-", " ", "x"}

\* -------------------------------------------------- ECMAScript numbers
\* a Number value: NaN, or (-1)^neg * mant / 10^scale
NaN == [nan |-> TRUE, neg |-> FALSE, mant |-> 0, scale |-> 0]

Num(neg, mant, scale) == [nan |-> FALSE, neg |-> neg, mant |-> mant, scale |-> scale]

isNaN(v) == v.nan

\* v > 0 (false for NaN and for -0)
GtZero(v) == ~v.nan /\ ~v.neg /\ v.mant > 0

\* v >= 0 (false for NaN, true for -0)
GeZero(v) == ~v.nan /\ (~v.neg \/ v.mant = 0)

Pow10(n) == IF n = 0 THEN 1 ELSE IF n = 1 THEN 10 ELSE IF n = 2 THEN 100
            ELSE IF n = 3 THEN 1000 ELSE IF n = 4 THEN 10000 ELSE 100000

DecDigits == <<"0", "1", "2", "3", "4", "5", "6", "7", "8", "9">>

IsDigit(c) == \E i \in 1..10 : DecDigits[i] = c

DigitVal(c) == (CHOOSE i \in 1..10 : DecDigits[i] = c) - 1

IsWhite(c) == c = " "

AllDigits(s) == \A i \in 1..Len(s) : IsDigit(s[i])

RECURSIVE DigitsValue(_, _)
\* value of a digit string in the given radix
DigitsValue(s, radix) ==
    IF s = <<>> THEN 0
    ELSE DigitsValue(SubSeq(s, 1, Len(s) - 1), radix) * radix + DigitVal(s[Len(s)])

\* number of leading white-space characters
LeadWS(s) ==
    CHOOSE k \in 0..Len(s) :
        /\ \A i \in 1..k : IsWhite(s[i])
        /\ (k = Len(s) \/ ~IsWhite(s[k + 1]))

TrimStart(s) == SubSeq(s, LeadWS(s) + 1, Len(s))

\* number of trailing white-space characters
TrailWS(s) ==
    CHOOSE k \in 0..Len(s) :
        /\ \A i \in (Len(s) - k + 1)..Len(s) : IsWhite(s[i])
        /\ (k = Len(s) \/ ~IsWhite(s[Len(s) - k]))

Trim(s) == LET t == TrimStart(s) IN SubSeq(t, 1, Len(t) - TrailWS(t))

\* StrUnsignedDecimalLiteral without exponent: D+ | D+ . D* | . D+
IsUnsignedDecimal(s) ==
    \/ Len(s) >= 1 /\ AllDigits(s)
    \/ \E k \in 1..Len(s) :
          /\ s[k] = "."
          /\ AllDigits(SubSeq(s, 1, k - 1))
          /\ AllDigits(SubSeq(s, k + 1, Len(s)))
          /\ Len(s) >= 2

UnsignedDecimalValue(s, neg) ==
    IF AllDigits(s) THEN Num(neg, DigitsValue(s, 10), 0)
    ELSE LET k == CHOOSE i \in 1..Len(s) : s[i] = "."
         IN  Num(neg,
                 DigitsValue(SubSeq(s, 1, k - 1) \o SubSeq(s, k + 1, Len(s)), 10),
                 Len(s) - k)

HasSign(s) == Len(s) >= 1 /\ s[1] \in {"-", "+"}

Unsigned(s) == IF HasSign(s) THEN SubSeq(s, 2, Len(s)) ELSE s

\* StrDecimalLiteral: optional sign, then an unsigned decimal literal
IsDecimalLiteral(s) == IsUnsignedDecimal(Unsigned(s))

DecimalLiteralValue(s) ==
    UnsignedDecimalValue(Unsigned(s), HasSign(s) /\ s[1] = "-")

\* NonDecimalIntegerLiteral of the alphabet: 0x followed by hex digits
IsHexLiteral(s) ==
    /\ Len(s) >= 3
    /\ s[1] = "0"
    /\ s[2] \in {"x", "X"}
    /\ AllDigits(SubSeq(s, 3, Len(s)))

\* Number(val): StringToNumber of the trimmed string, the empty string is 0
Number(s) ==
    LET t == Trim(s)
    IN  IF t = <<>> THEN Num(FALSE, 0, 0)
        ELSE IF IsHexLiteral(t) THEN Num(FALSE, DigitsValue(SubSeq(t, 3, Len(t)), 16), 0)
        ELSE IF IsDecimalLiteral(t) THEN DecimalLiteralValue(t)
        ELSE NaN

\* parseFloat(val): the longest prefix of the left-trimmed string that is a
\* StrDecimalLiteral, NaN when there is none
parseFloat(s) ==
    LET t == TrimStart(s)
        ks == {k \in 1..Len(t) : IsDecimalLiteral(SubSeq(t, 1, k))}
    IN  IF ks = {} THEN NaN
        ELSE LET k == CHOOSE m \in ks : \A n \in ks : n <= m
             IN  DecimalLiteralValue(SubSeq(t, 1, k))

\* parseInt(val, 10): sign, then the longest run of decimal digits of the
\* left-trimmed string (radix 10: no 0x prefix is stripped), NaN when empty
parseInt(s, radix) ==
    LET t == TrimStart(s)
        u == Unsigned(t)
        k == CHOOSE m \in 0..Len(u) :
                /\ AllDigits(SubSeq(u, 1, m))
                /\ (m = Len(u) \/ ~IsDigit(u[m + 1]))
    IN  IF k = 0 THEN NaN
        ELSE Num(HasSign(t) /\ t[1] = "-", DigitsValue(SubSeq(u, 1, k), radix), 0)


\* ------------------------------------------------ the product form: values
MAX_FILE_SIZE == 5 * 1024 * 1024

ACCEPTED_IMAGE_TYPES == {"image/jpeg", "image/png", "image/webp"}

NumImages == 5

NumVariants == 5

NumSpecifications == 6

MinNameLen == 4

MinDescriptionLen == 10

\* an image slot without a file (file: undefined)
NoFile == [present |-> FALSE, size |-> 0, type |-> ""]

File(size, type) == [present |-> TRUE, size |-> size, type |-> type]

\* Array(n).fill(v)
ArrayFill(n, v) == [i \in 1..n |-> v]

\* defaultValues with one image slot too few
defaultValues_fourImages ==
    [name           |-> "",
     price          |-> <<>>,
     stock          |-> <<>>,
     description    |-> "",
     specifications |-> ArrayFill(NumSpecifications, ""),
     images         |-> ArrayFill(NumImages - 1, [file |-> NoFile]),
     variants       |-> ArrayFill(NumVariants, ""),
     categorySlug   |-> ""]

\* useForm's defaultValues; form.reset() restores them
defaultValues ==
    [name           |-> "",
     price          |-> <<>>,
     stock          |-> <<>>,
     description    |-> "",
     specifications |-> ArrayFill(NumSpecifications, ""),
     images         |-> ArrayFill(NumImages, [file |-> NoFile]),
     variants       |-> ArrayFill(NumVariants, ""),
     categorySlug   |-> ""]

\* the slugs of the category select
CategoryOptions == {"electronics", "clothing", "books", "home", "toys"}

\* images[i].file: an optional File of at most MAX_FILE_SIZE and accepted type
FileOk(f) ==
    ~f.present \/ (f.size <= MAX_FILE_SIZE /\ f.type \in ACCEPTED_IMAGE_TYPES)

\* price: !isNaN(Number(val)) && Number(val) > 0
PriceOk(val) == ~isNaN(Number(val)) /\ GtZero(Number(val))

\* stock: !isNaN(Number(val)) && Number(val) >= 0
StockOk(val) == ~isNaN(Number(val)) /\ GeZero(Number(val))

\* productFormSchema: TRUE when the zod schema accepts the values
productFormSchema(data) ==
    /\ Len(data.name) >= MinNameLen
    /\ PriceOk(data.price)
    /\ Len(data.images) = NumImages
    /\ \A i \in 1..Len(data.images) : FileOk(data.images[i].file)
    /\ Len(data.variants) = NumVariants
    /\ Len(data.description) >= MinDescriptionLen
    /\ Len(data.specifications) = NumSpecifications
    /\ StockOk(data.stock)

\* JSON.stringify of a number: NaN is written as null
JsonNumber(v) == [null |-> isNaN(v), neg |-> v.neg, mant |-> v.mant, scale |-> v.scale]

\* the display_url the image host returns for the upload of run r, slot i
DisplayUrl(r, i) == [run |-> r, slot |-> i]

\* productData of onSubmit, as serialised into the request body
productData(data, uploadedImages, shop) ==
    [name           |-> data.name,
     images         |-> uploadedImages,
     variants       |-> data.variants,
     price          |-> JsonNumber(parseFloat(data.price)),
     stock          |-> JsonNumber(parseInt(data.stock, 10)),
     description    |-> data.description,
     specifications |-> data.specifications,
     categorySlug   |-> data.categorySlug,
     shopName       |-> shop]

\* the last filled slot instead of the first: the loop skips filled slots
NextFilled_last(images, i) ==
    LET js == {j \in i..Len(images) : images[j].file.present}
    IN  IF js = {} THEN 0 ELSE CHOOSE j \in js : \A k \in js : j >= k

\* first slot at or after i that holds a file, 0 when there is none
\* (the for loop of onSubmit skips the slots without a file)
NextFilled(images, i) ==
    LET js == {j \in i..Len(images) : images[j].file.present}
    IN  IF js = {} THEN 0 ELSE CHOOSE j \in js : \A k \in js : j <= k


\* ---------------------------------------------------------------- state
VARIABLES
    form,        \* the values held by react-hook-form
    isLoading,   \* useState(false)
    shopName,    \* the shopName prop of the mounted component
    runs,        \* one record per submit event: the position of its handler
    hosted,      \* display_urls the image host has stored
    users, accounts, sessions, categories, shops, products,
    reviews, wishlists, orders, carts    \* the tables of the schema

clientVars == <<form, isLoading, shopName, runs, hosted>>

authVars == <<users, accounts, sessions>>

catalogVars == <<categories, shops, products>>

salesVars == <<reviews, wishlists, orders, carts>>

vars == <<form, isLoading, shopName, runs, hosted, users, accounts, sessions,
          categories, shops, products, reviews, wishlists, orders, carts>>

RunIds == 1..MaxRuns

\* a submit event that has not been issued yet
IdleRun ==
    [pc             |-> "idle",
     data           |-> defaultValues,
     slot           |-> 0,
     uploadedImages |-> <<>>,
     reqs           |-> <<>>,
     resps          |-> 0,
     toasts         |-> <<>>,
     resets         |-> 0]

\* the run is inside onSubmit (between setIsLoading(true) and the finally)
InOnSubmit(r) == runs[r].pc \in {"uploading", "posting"}

\* the run has called onSubmit at some point
RanOnSubmit(r) == runs[r].pc \in {"uploading", "posting", "done", "failed"}

Uploads(r) == SelectSeq(runs[r].reqs, LAMBDA q : q.kind = "upload")

Posts(r) == SelectSeq(runs[r].reqs, LAMBDA q : q.kind = "post")

UploadReq(i, file) == [kind |-> "upload", slot |-> i, body |-> file]

PostReq(body) == [kind |-> "post", slot |-> 0, body |-> body]


\* ------------------------------------------------- schema: the catalog
\* the category relation left out: only the shop is a foreign key
ProductRefsOk_shopOnly(row, shopRows, categoryRows) ==
    \E s \in shopRows : s.name = row.shopName

\* Product.shop / Product.category: the foreign keys shop_name -> shops.name
\* and category_slug -> categories.slug
ProductRefsOk(row, shopRows, categoryRows) ==
    /\ \E s \in shopRows : s.name = row.shopName
    /\ \E c \in categoryRows : c.slug = row.categorySlug

\* Product.name @unique
ProductNameFree(row, productRows) ==
    \A p \in productRows : p.id = row.id \/ p.name # row.name

\* price Float and stock Int are required columns: null is refused
ProductColumnsOk(row) ==
    /\ ~row.price.null
    /\ ~row.stock.null
    /\ row.stock.scale = 0

\* a uuid no row of the table holds
FreshId(rows) ==
    CHOOSE n \in 1..(Cardinality(rows) + 1) :
        /\ \A r \in rows : r.id # n
        /\ \A m \in 1..(n - 1) : \E r \in rows : r.id = m

ProductRow(id, body) ==
    [id           |-> id,
     name         |-> body.name,
     shopName     |-> body.shopName,
     categorySlug |-> body.categorySlug,
     price        |-> body.price,
     stock        |-> body.stock,
     images       |-> body.images]

\* POST /api/products persists the body through the ORM: the row is
\* inserted when the schema accepts it
PostProductsAccepts(body) ==
    LET row == ProductRow(FreshId(products), body)
    IN  /\ ProductColumnsOk(row)
        /\ ProductNameFree(row, products)
        /\ ProductRefsOk(row, shops, categories)

PostProductsInsert(body) == products \cup {ProductRow(FreshId(products), body)}

\* ------------------------------------------------ the form: user input
SetName(v) ==
    /\ form' = [form EXCEPT !.name = v]
    /\ UNCHANGED <<isLoading, shopName, runs, hosted, authVars, catalogVars, salesVars>>

SetDescription(v) ==
    /\ form' = [form EXCEPT !.description = v]
    /\ UNCHANGED <<isLoading, shopName, runs, hosted, authVars, catalogVars, salesVars>>

SetCategorySlug(c) ==
    /\ c \in CategoryOptions
    /\ form' = [form EXCEPT !.categorySlug = c]
    /\ UNCHANGED <<isLoading, shopName, runs, hosted, authVars, catalogVars, salesVars>>

SetPrice(s) ==
    /\ form' = [form EXCEPT !.price = s]
    /\ UNCHANGED <<isLoading, shopName, runs, hosted, authVars, catalogVars, salesVars>>

SetStock(s) ==
    /\ form' = [form EXCEPT !.stock = s]
    /\ UNCHANGED <<isLoading, shopName, runs, hosted, authVars, catalogVars, salesVars>>

FilesAttached == Cardinality({i \in 1..Len(form.images) : form.images[i].file.present})

\* onChange of the file input of slot i: a chosen file replaces the value
AttachFile(i, f) ==
    /\ i \in 1..Len(form.images)
    /\ f.present
    /\ form.images[i].file.present \/ FilesAttached < MaxFiles
    /\ form' = [form EXCEPT !.images[i].file = f]
    /\ UNCHANGED <<isLoading, shopName, runs, hosted, authVars, catalogVars, salesVars>>

\* ------------------------------------------------ handleSubmit / onSubmit
\* the for loop of onSubmit from slot i up to its next await: the upload of
\* the next filled slot, or, past the last slot, the POST of productData
onSubmitLoop(run, i) ==
    LET j == NextFilled(run.data.images, i)
    IN  IF j # 0
        THEN [run EXCEPT !.pc = "uploading",
                         !.slot = j,
                         !.reqs = Append(@, UploadReq(j, run.data.images[j].file))]
        ELSE [run EXCEPT !.pc = "posting",
                         !.slot = 0,
                         !.reqs = Append(@, PostReq(productData(run.data, run.uploadedImages, shopName)))]

\* a catch that logs the error but shows no toast
onSubmitCatch_silent(run) ==
    [run EXCEPT !.pc = "failed", !.slot = 0]

\* catch: the destructive toast
onSubmitCatch(run) ==
    [run EXCEPT !.pc = "failed", !.slot = 0, !.toasts = Append(@, "Error")]

\* the success path after the POST: toast, then form.reset()
onSubmitSuccess(run) ==
    [run EXCEPT !.pc = "done", !.toasts = Append(@, "Product Created"), !.resets = @ + 1]

\* the submit button is rendered disabled={isLoading}
SubmitEnabled == ~isLoading

\* a submit event: handleSubmit copies the values and starts the resolver
SubmitEvent(r) ==
    /\ SubmitEnabled
    /\ runs[r].pc = "idle"
    /\ \A q \in RunIds : q < r => runs[q].pc # "idle"
    /\ runs' = [runs EXCEPT ![r] = [IdleRun EXCEPT !.pc = "validating", !.data = form]]
    /\ UNCHANGED <<form, isLoading, shopName, hosted, authVars, catalogVars, salesVars>>

\* the resolver rejects the values: errors are shown, onSubmit is not called
ValidationFails(r) ==
    /\ runs[r].pc = "validating"
    /\ ~productFormSchema(runs[r].data)
    /\ runs' = [runs EXCEPT ![r].pc = "invalid"]
    /\ UNCHANGED <<form, isLoading, shopName, hosted, authVars, catalogVars, salesVars>>

\* the resolver accepts the values: onSubmit(data) runs up to its first await
OnSubmitStart(r) ==
    /\ runs[r].pc = "validating"
    /\ productFormSchema(runs[r].data)
    /\ isLoading' = TRUE
    /\ runs' = [runs EXCEPT ![r] = onSubmitLoop(runs[r], 1)]
    /\ UNCHANGED <<form, shopName, hosted, authVars, catalogVars, salesVars>>

UploadOutcomes == {"ok", "neterr", "http", "nosuccess", "badjson"}

\* the image host answers the upload of run r (or the fetch throws)
UploadResponse(r, outcome) ==
    /\ runs[r].pc = "uploading"
    /\ outcome \in UploadOutcomes
    /\ IF outcome = "ok"
       THEN LET url == DisplayUrl(r, runs[r].slot)
                got == [runs[r] EXCEPT !.resps = @ + 1,
                                       !.uploadedImages = Append(@, url)]
            IN  /\ hosted' = hosted \cup {url}
                /\ runs' = [runs EXCEPT ![r] = onSubmitLoop(got, runs[r].slot + 1)]
                /\ UNCHANGED isLoading
       ELSE /\ runs' = [runs EXCEPT ![r] = onSubmitCatch([runs[r] EXCEPT !.resps = @ + 1])]
            /\ isLoading' = FALSE
            /\ UNCHANGED hosted
    /\ UNCHANGED <<form, shopName, authVars, catalogVars, salesVars>>

PostOutcomes == {"ok", "neterr", "lost", "error"}

\* POST /api/products of run r is answered (or the fetch throws)
\*   ok:     the row is inserted, the response is ok
\*   lost:   the row is inserted, the response never arrives (fetch throws)
\*   error:  the handler answers with a non-ok status, no row
\*   neterr: the request never reaches the handler (fetch throws)
PostResponse(r, outcome) ==
    /\ runs[r].pc = "posting"
    /\ outcome \in PostOutcomes
    /\ LET body == runs[r].reqs[Len(runs[r].reqs)].body
           got  == [runs[r] EXCEPT !.resps = @ + 1]
       IN  /\ outcome \in {"ok", "lost"} => PostProductsAccepts(body)
           /\ products' = IF outcome \in {"ok", "lost"}
                          THEN PostProductsInsert(body) ELSE products
           /\ IF outcome = "ok"
              THEN /\ runs' = [runs EXCEPT ![r] = onSubmitSuccess(got)]
                   /\ form' = defaultValues
              ELSE /\ runs' = [runs EXCEPT ![r] = onSubmitCatch(got)]
                   /\ UNCHANGED form
    /\ isLoading' = FALSE
    /\ UNCHANGED <<shopName, hosted, authVars, categories, shops, salesVars>>


\* ------------------------------------------------ the submission lifecycle
\* values the seller enters in the lifecycle specification
NameInputs == {"lamp"}

DescriptionInputs == {"a sturdy lamp"}

CategoryInputs == {"books", "toys"}

PriceInputs == {<<"1">>}

StockInputs == {<<"1">>}

\* a file the schema accepts, one that is too large, one of a refused type
FileInputs ==
    {File(1024, "image/png"), File(MAX_FILE_SIZE + 1, "image/png"), File(1024, "image/gif")}

ShopNameInputs == {"acme", "ghost"}

\* the store the form is mounted against: one seller with the shop acme and
\* the category books, no product yet
SeedUsers == {[id |-> 1, email |-> "seller@x", role |-> "seller", status |-> "active"]}

SeedShops == {[id |-> 1, name |-> "acme", sellerEmail |-> "seller@x", status |-> "active"]}

SeedCategories == {[id |-> 1, slug |-> "books", status |-> "active"]}

InitClient ==
    /\ form = defaultValues
    /\ isLoading = FALSE
    /\ runs = [r \in RunIds |-> IdleRun]
    /\ hosted = {}

\* the seeded store of the lifecycle specification
InitStore ==
    /\ users = SeedUsers
    /\ accounts = {}
    /\ sessions = {}
    /\ categories = SeedCategories
    /\ shops = SeedShops
    /\ products = {}
    /\ reviews = {}
    /\ wishlists = {}
    /\ orders = {}
    /\ carts = {}

Init ==
    /\ InitClient
    /\ shopName \in ShopNameInputs
    /\ InitStore

\* the seller fills the form before the first submit event
NoSubmitYet == \A r \in RunIds : runs[r].pc = "idle"

FillForm ==
    \/ \E v \in NameInputs : NoSubmitYet /\ SetName(v)
    \/ \E v \in DescriptionInputs : NoSubmitYet /\ SetDescription(v)
    \/ \E c \in CategoryInputs : NoSubmitYet /\ SetCategorySlug(c)
    \/ \E s \in PriceInputs : NoSubmitYet /\ SetPrice(s)
    \/ \E s \in StockInputs : NoSubmitYet /\ SetStock(s)
    \/ \E i \in 1..NumImages, f \in FileInputs : NoSubmitYet /\ AttachFile(i, f)

Submission ==
    \E r \in RunIds :
        \/ SubmitEvent(r)
        \/ ValidationFails(r)
        \/ OnSubmitStart(r)
        \/ \E o \in UploadOutcomes : UploadResponse(r, o)
        \/ \E o \in PostOutcomes : PostResponse(r, o)

Next == FillForm \/ Submission

Spec == Init /\ [][Next]_vars


\* ------------------------------------------ validation and normalisation
\* the strings one more key press makes of s: every string over InputChars
\* of at most MaxStrLen characters is typed this way
KeyPress(s) == IF Len(s) < MaxStrLen THEN {Append(s, c) : c \in InputChars} ELSE {}

\* a form whose name, description and category are filled in and valid;
\* price, stock and the first image slot are still the defaults
InitFields ==
    /\ form = [defaultValues EXCEPT !.name = "lamp",
                                    !.description = "a sturdy lamp",
                                    !.categorySlug = "books"]
    /\ isLoading = FALSE
    /\ runs = [r \in RunIds |-> IdleRun]
    /\ hosted = {}
    /\ shopName = "acme"
    /\ InitStore

\* the seller types any price and any stock, then submits once
FillFields ==
    \/ \E s \in KeyPress(form.price) : NoSubmitYet /\ SetPrice(s)
    \/ \E s \in KeyPress(form.stock) : NoSubmitYet /\ SetStock(s)
    \/ NoSubmitYet /\ AttachFile(1, File(1024, "image/png"))

SubmitOnce ==
    \/ SubmitEvent(1)
    \/ ValidationFails(1)
    \/ OnSubmitStart(1)
    \/ \E o \in UploadOutcomes : UploadResponse(1, o)
    \/ \E o \in PostOutcomes : PostResponse(1, o)

NextFields == FillFields \/ SubmitOnce

SpecFields == InitFields /\ [][NextFields]_vars

\* the string is a numeral: after trimming it is a non-empty decimal or
\* hexadecimal literal
IsNumeral(s) ==
    LET t == Trim(s)
    IN  t # <<>> /\ (IsHexLiteral(t) \/ IsDecimalLiteral(t))

\* the string is a numeral whose value is greater than 0
IsPositiveNumeral(s) == IsNumeral(s) /\ GtZero(Number(s))

\* C1: a submitted form whose price string is not a number greater than 0,
\* or whose stock string is not numeric, fails validation: onSubmit does not
\* run for it and it sends no request (no upload, no POST /api/products).
C1_RejectsBadPriceOrStock ==
    \A r \in RunIds :
        (runs[r].pc # "idle"
            /\ ~(IsPositiveNumeral(runs[r].data.price) /\ IsNumeral(runs[r].data.stock)))
        => (~RanOnSubmit(r) /\ runs[r].reqs = <<>>)

\* C9: every payload POSTed to /api/products carries a price that is a
\* finite number greater than 0 and a stock that is an integer >= 0.
C9_PayloadNumbersValid ==
    \A r \in RunIds :
        \A k \in 1..Len(runs[r].reqs) :
            runs[r].reqs[k].kind = "post" =>
                LET body == runs[r].reqs[k].body
                IN  /\ ~body.price.null
                    /\ ~body.price.neg
                    /\ body.price.mant > 0
                    /\ ~body.stock.null
                    /\ body.stock.mant % Pow10(body.stock.scale) = 0
                    /\ (~body.stock.neg \/ body.stock.mant = 0)


\* ------------------------------------------------ the submission lifecycle
\* the slots that hold a file, in slot order
FilledSlots(images) ==
    SelectSeq([i \in 1..Len(images) |-> i], LAMBDA i : images[i].file.present)

\* C2: exactly 5 image slots, 5 variant slots and 6 specification slots: the
\* form holds these three lengths initially and after form.reset(), and a
\* submission reaches onSubmit only with these three lengths.
C2_SlotCounts ==
    /\ Len(form.images) = 5
    /\ Len(form.variants) = 5
    /\ Len(form.specifications) = 6
    /\ \A r \in RunIds :
          RanOnSubmit(r) =>
              /\ Len(runs[r].data.images) = 5
              /\ Len(runs[r].data.variants) = 5
              /\ Len(runs[r].data.specifications) = 6

\* a submission ran onSubmit to its end and form.reset() restored the defaults
C2_Witness ==
    \E r \in RunIds : runs[r].pc = "done" /\ runs[r].resets = 1 /\ form = defaultValues

\* C3: a submission that ends with the "Product Created" toast adds exactly
\* one Product row, whose shopName is the name of an existing Shop and whose
\* categorySlug is the slug of an existing Category.
C3_SuccessCreatesOneValidRow ==
    [][\A r \in RunIds :
          (runs[r].pc # "done" /\ runs'[r].pc = "done") =>
              \E row \in products' :
                  /\ row \notin products
                  /\ products' = products \cup {row}
                  /\ row.name = runs[r].data.name
                  /\ \E s \in shops' : s.name = row.shopName
                  /\ \E c \in categories' : c.slug = row.categorySlug]_vars

\* a submission showed the success toast and its row is in the table
C3_Witness ==
    \E r \in RunIds :
        /\ runs[r].pc = "done"
        /\ runs[r].toasts = <<"Product Created">>
        /\ \E p \in products : p.name = runs[r].data.name

\* C4: within one submission the uploads go out one at a time in slot order,
\* each after the previous response; the single POST /api/products goes out
\* after the upload of every filled slot succeeded, and its images are the
\* returned URLs in slot order.
C4_SequentialUploadsThenOnePost ==
    \A r \in RunIds :
        LET q  == runs[r].reqs
            fs == FilledSlots(runs[r].data.images)
        IN  /\ Len(q) <= runs[r].resps + 1
            /\ Len(Posts(r)) <= 1
            /\ \A k \in 1..Len(q) :
                  q[k].kind = "upload" => (k <= Len(fs) /\ q[k].slot = fs[k])
            /\ \A k \in 1..Len(q) :
                  q[k].kind = "post" =>
                      /\ k = Len(fs) + 1
                      /\ \A j \in 1..Len(fs) : DisplayUrl(r, fs[j]) \in hosted
                      /\ q[k].body.images = [j \in 1..Len(fs) |-> DisplayUrl(r, fs[j])]

\* a submission with two filled slots, the first one empty, sent its POST
C4_Witness ==
    \E r \in RunIds :
        /\ Len(Uploads(r)) = 2
        /\ Len(Posts(r)) = 1
        /\ ~runs[r].data.images[1].file.present

\* C5: when an upload or the product POST fails, the submission sends no
\* further request, shows exactly one error toast and no success toast, does
\* not reset the form and leaves the images already uploaded on the host.
C5_FailureStopsRun ==
    [][/\ hosted \subseteq hosted'
       /\ \A r \in RunIds :
             /\ runs[r].pc = "failed" => runs'[r] = runs[r]
             /\ (runs[r].pc # "failed" /\ runs'[r].pc = "failed") =>
                   /\ runs'[r].reqs = runs[r].reqs
                   /\ runs'[r].toasts = <<"Error">>
                   /\ runs'[r].resets = 0
                   /\ form' = form
                   /\ \A k \in 1..Len(runs'[r].uploadedImages) :
                         runs'[r].uploadedImages[k] \in hosted'
                   /\ runs[r].pc = "uploading" => Posts(r) = <<>>]_vars

\* one submission failed on its second upload, a later one on its POST
C5_Witness ==
    \E r1, r2 \in RunIds :
        /\ runs[r1].pc = "failed"
        /\ Len(runs[r1].uploadedImages) = 1
        /\ Len(Uploads(r1)) = 2
        /\ Posts(r1) = <<>>
        /\ runs[r2].pc = "failed"
        /\ Len(Posts(r2)) = 1

\* C10: no second run of onSubmit starts before the first has finished.
C10_OneOnSubmitAtATime ==
    Cardinality({r \in RunIds : InOnSubmit(r)}) <= 1

\* C11: isLoading is true exactly while a run of onSubmit is in progress, and
\* a run of onSubmit that has ended, by success, by a failed upload or by a
\* failed POST, has shown exactly one toast.
C11_LoadingWhileOnSubmitRuns ==
    /\ isLoading <=> \E r \in RunIds : InOnSubmit(r)
    /\ \A r \in RunIds :
        runs[r].pc \in {"done", "failed"} => Len(runs[r].toasts) = 1


\* ------------------------------------------------------ schema: the store
UserEmails == {"a@x", "b@x"}

CategorySlugs == {"books", "toys"}

ShopNames == {"acme", "zenith"}

ProductNames == {"lamp"}

PaymentIds == {"pay1"}

Quantities == {1, 2}

Ids(rows) == {r.id : r \in rows}

StoreRows ==
    Cardinality(accounts) + Cardinality(sessions) + Cardinality(categories)
        + Cardinality(shops) + Cardinality(products) + Cardinality(reviews)
        + Cardinality(wishlists) + Cardinality(orders)

\* Account.user / Session.user: user_id -> users.id
UserIdRefOk(row, userRows) == \E u \in userRows : u.id = row.userId

\* Shop.user, Review.user, Wishlist.user, Order.user: an email column ->
\* users.email
UserEmailRefOk(email, userRows) == \E u \in userRows : u.email = email

\* Review.product, Wishlist.product: product_id -> products.id
ProductIdRefOk(row, productRows) == \E p \in productRows : p.id = row.productId

\* a delete that leaves the rows of the deleted user in place
CascadeDeleteUser_none(rows, u) == rows

\* onDelete: Cascade of Account.user and Session.user: the rows of the
\* deleted user go with it
CascadeDeleteUser(rows, u) == {r \in rows : r.userId # u.id}

\* the relations to User without onDelete (Shop, Review, Wishlist, Order)
\* are required, so the delete is refused while a row refers to the user
UserDeleteRestricted(u) ==
    \/ \E s \in shops : s.sellerEmail = u.email
    \/ \E r \in reviews : r.userEmail = u.email
    \/ \E w \in wishlists : w.userEmail = u.email
    \/ \E o \in orders : o.userEmail = u.email

\* a changed shop name that is not written through to the products
CascadeShopName_none(rows, old, new) == rows

\* the relations Product.shop and Product.category carry no onUpdate: a
\* changed key is written through to the referring rows
CascadeShopName(rows, old, new) ==
    {IF p.shopName = old THEN [p EXCEPT !.shopName = new] ELSE p : p \in rows}

CascadeCategorySlug(rows, old, new) ==
    {IF p.categorySlug = old THEN [p EXCEPT !.categorySlug = new] ELSE p : p \in rows}

\* a total that counts the first line item only
LinesTotal_firstOnly(items) == items[1].price * items[1].quantity

\* sum of price * quantity over a sequence of line items
RECURSIVE LinesTotal(_)
LinesTotal(items) ==
    IF items = <<>> THEN 0
    ELSE items[1].price * items[1].quantity + LinesTotal(Tail(items))

RECURSIVE RowsTotal(_)
\* sum of price * quantity over a set of Cart rows
RowsTotal(rows) ==
    IF rows = {} THEN 0
    ELSE LET c == CHOOSE x \in rows : TRUE
         IN  c.price * c.quantity + RowsTotal(rows \ {c})

\* ---------------------------------------------------- store operations
CreateUser(email) ==
    /\ \A u \in users : u.email # email
    /\ users' = users \cup {[id |-> FreshId(users), email |-> email,
                             role |-> "buyer", status |-> "active"]}
    /\ UNCHANGED <<clientVars, accounts, sessions, catalogVars, salesVars>>

UpdateUserRole(u, role) ==
    /\ u \in users
    /\ u.role # role
    /\ users' = (users \ {u}) \cup {[u EXCEPT !.role = role]}
    /\ UNCHANGED <<clientVars, accounts, sessions, catalogVars, salesVars>>

CreateAccount(userId) ==
    /\ StoreRows < MaxRows
    /\ LET row == [id |-> FreshId(accounts), userId |-> userId]
       IN  /\ UserIdRefOk(row, users)
           /\ accounts' = accounts \cup {row}
    /\ UNCHANGED <<clientVars, users, sessions, catalogVars, salesVars>>

CreateSession(userId) ==
    /\ StoreRows < MaxRows
    /\ LET row == [id |-> FreshId(sessions), userId |-> userId]
       IN  /\ UserIdRefOk(row, users)
           /\ sessions' = sessions \cup {row}
    /\ UNCHANGED <<clientVars, users, accounts, catalogVars, salesVars>>

DeleteUser(u) ==
    /\ u \in users
    /\ ~UserDeleteRestricted(u)
    /\ users' = users \ {u}
    /\ accounts' = CascadeDeleteUser(accounts, u)
    /\ sessions' = CascadeDeleteUser(sessions, u)
    /\ UNCHANGED <<clientVars, catalogVars, salesVars>>

CreateCategory(slug) ==
    /\ StoreRows < MaxRows
    /\ \A c \in categories : c.slug # slug
    /\ categories' = categories \cup
          {[id |-> FreshId(categories), slug |-> slug, status |-> "active"]}
    /\ UNCHANGED <<clientVars, authVars, shops, products, salesVars>>

UpdateCategorySlug(c, slug) ==
    /\ c \in categories
    /\ \A d \in categories : d.slug # slug
    /\ categories' = (categories \ {c}) \cup {[c EXCEPT !.slug = slug]}
    /\ products' = CascadeCategorySlug(products, c.slug, slug)
    /\ UNCHANGED <<clientVars, authVars, shops, salesVars>>

CreateShop(name, email) ==
    /\ StoreRows < MaxRows
    /\ \A s \in shops : s.name # name /\ s.sellerEmail # email
    /\ UserEmailRefOk(email, users)
    /\ shops' = shops \cup {[id |-> FreshId(shops), name |-> name,
                             sellerEmail |-> email, status |-> "active"]}
    /\ UNCHANGED <<clientVars, authVars, categories, products, salesVars>>

UpdateShopName(s, name) ==
    /\ s \in shops
    /\ \A t \in shops : t.name # name
    /\ shops' = (shops \ {s}) \cup {[s EXCEPT !.name = name]}
    /\ products' = CascadeShopName(products, s.name, name)
    /\ UNCHANGED <<clientVars, authVars, categories, salesVars>>

\* POST /api/products with any body, by any client
CreateProduct(body) ==
    /\ StoreRows < MaxRows
    /\ PostProductsAccepts(body)
    /\ products' = PostProductsInsert(body)
    /\ UNCHANGED <<clientVars, authVars, categories, shops, salesVars>>

\* a product moved to another shop or category
UpdateProductRefs(p, shop, slug) ==
    /\ p \in products
    /\ LET row == [p EXCEPT !.shopName = shop, !.categorySlug = slug]
       IN  /\ row # p
           /\ ProductRefsOk(row, shops, categories)
           /\ products' = (products \ {p}) \cup {row}
    /\ UNCHANGED <<clientVars, authVars, categories, shops, salesVars>>

CreateReview(productId, email) ==
    /\ StoreRows < MaxRows
    /\ LET row == [id |-> FreshId(reviews), productId |-> productId, userEmail |-> email]
       IN  /\ ProductIdRefOk(row, products)
           /\ UserEmailRefOk(email, users)
           /\ reviews' = reviews \cup {row}
    /\ UNCHANGED <<clientVars, authVars, catalogVars, wishlists, orders, carts>>

CreateWishlist(productId, email) ==
    /\ StoreRows < MaxRows
    /\ LET row == [id |-> FreshId(wishlists), productId |-> productId, userEmail |-> email]
       IN  /\ ProductIdRefOk(row, products)
           /\ UserEmailRefOk(email, users)
           /\ wishlists' = wishlists \cup {row}
    /\ UNCHANGED <<clientVars, authVars, catalogVars, reviews, orders, carts>>

\* the Cart rows of an order: one per line item, product fields copied
OrderLines(orderId, items) ==
    {[id        |-> FreshId(carts) + k - 1,
      productId |-> items[k].productId,
      name      |-> items[k].name,
      price     |-> items[k].price,
      quantity  |-> items[k].quantity,
      orderId   |-> orderId] : k \in 1..Len(items)}

\* an order is placed: the order row and its line items are written together
CreateOrder(email, paymentId, items) ==
    /\ StoreRows < MaxRows
    /\ Len(items) >= 1
    /\ \A o \in orders : o.paymentId # paymentId
    /\ UserEmailRefOk(email, users)
    /\ LET id == FreshId(orders)
       IN  /\ orders' = orders \cup
                 {[id |-> id, paymentId |-> paymentId, status |-> "pending",
                   totalAmount |-> LinesTotal(items), userEmail |-> email]}
           /\ carts' = carts \cup OrderLines(id, items)
    /\ UNCHANGED <<clientVars, authVars, catalogVars, reviews, wishlists>>

UpdateOrderStatus(o, status) ==
    /\ o \in orders
    /\ o.status # status
    /\ orders' = (orders \ {o}) \cup {[o EXCEPT !.status = status]}
    /\ UNCHANGED <<clientVars, authVars, catalogVars, reviews, wishlists, carts>>


\* ------------------------------------------------ the store specification
InitEmptyStore ==
    /\ InitClient
    /\ shopName = "acme"
    /\ users = {}
    /\ accounts = {}
    /\ sessions = {}
    /\ categories = {}
    /\ shops = {}
    /\ products = {}
    /\ reviews = {}
    /\ wishlists = {}
    /\ orders = {}
    /\ carts = {}

\* a request body for POST /api/products
StoreBody(name, shop, slug) ==
    [name           |-> name,
     images         |-> <<>>,
     variants       |-> ArrayFill(NumVariants, ""),
     price          |-> JsonNumber(Num(FALSE, 3, 0)),
     stock          |-> JsonNumber(Num(FALSE, 1, 0)),
     description    |-> "a sturdy lamp",
     specifications |-> ArrayFill(NumSpecifications, ""),
     categorySlug   |-> slug,
     shopName       |-> shop]

\* a line item: the product's fields as they are at order time
LineItem(p, q) ==
    [productId |-> p.id, name |-> p.name, price |-> p.price.mant, quantity |-> q]

LineItems == {LineItem(p, q) : p \in products, q \in Quantities}

Baskets == UNION {[1..n -> LineItems] : n \in 1..MaxLines}

AuthStep ==
    \/ \E e \in UserEmails : CreateUser(e)
    \/ \E u \in users : UpdateUserRole(u, "seller")
    \/ \E u \in users : CreateAccount(u.id)
    \/ \E u \in users : CreateSession(u.id)
    \/ \E u \in users : DeleteUser(u)

CatalogStep ==
    \/ \E c \in CategorySlugs : CreateCategory(c)
    \/ \E c \in categories, slug \in CategorySlugs : UpdateCategorySlug(c, slug)
    \/ \E n \in ShopNames, e \in UserEmails : CreateShop(n, e)
    \/ \E t \in shops, n \in ShopNames : UpdateShopName(t, n)
    \/ \E n \in ProductNames, sn \in ShopNames, c \in CategorySlugs :
          CreateProduct(StoreBody(n, sn, c))
    \/ \E p \in products, sn \in ShopNames, c \in CategorySlugs :
          UpdateProductRefs(p, sn, c)

SalesStep ==
    \/ \E p \in products, e \in UserEmails : CreateReview(p.id, e)
    \/ \E p \in products, e \in UserEmails : CreateWishlist(p.id, e)
    \/ \E e \in UserEmails, pay \in PaymentIds, b \in Baskets : CreateOrder(e, pay, b)
    \/ \E o \in orders : UpdateOrderStatus(o, "paid")

NextStore == AuthStep \/ CatalogStep \/ SalesStep

SpecStore == InitEmptyStore /\ [][NextStore]_vars


\* C6: every Product's shopName is the name of an existing Shop and its
\* categorySlug the slug of an existing Category, after any creations and
\* updates (renames included).
C6_ProductRefsExist ==
    \A p \in products :
        /\ \E t \in shops : t.name = p.shopName
        /\ \E c \in categories : c.slug = p.categorySlug

\* a product in a store with two shops (so that a rename or a move to the
\* other shop has a name to collide with or to point at)
C6_Witness ==
    /\ products # {}
    /\ Cardinality(shops) = 2

C8_OnlyUserDeleteCascades ==
    [][/\ Ids(categories) \subseteq Ids(categories')
       /\ Ids(shops) \subseteq Ids(shops')
       /\ Ids(products) \subseteq Ids(products')
       /\ Ids(reviews) \subseteq Ids(reviews')
       /\ Ids(wishlists) \subseteq Ids(wishlists')
       /\ Ids(orders) \subseteq Ids(orders')
       /\ Ids(carts) \subseteq Ids(carts')
       /\ accounts' = {a \in accounts : a.userId \in Ids(users')} \cup (accounts' \ accounts)
       /\ sessions' = {t \in sessions : t.userId \in Ids(users')} \cup (sessions' \ sessions)
       /\ \A a \in accounts' : \E u \in users' : u.id = a.userId
       /\ \A t \in sessions' : \E u \in users' : u.id = t.userId
       /\ \A t \in shops' : \E u \in users' : u.email = t.sellerEmail
       /\ \A r \in reviews' : \E u \in users' : u.email = r.userEmail
       /\ \A w \in wishlists' : \E u \in users' : u.email = w.userEmail
       /\ \A o \in orders' : \E u \in users' : u.email = o.userEmail]_vars

\* the first user and its account are gone, the account of the second user
\* is still there
C8_Witness ==
    /\ Ids(users) = {2}
    /\ Ids(accounts) = {2}
    /\ \A a \in accounts : a.userId = 2

====
